---- MODULE Spec2Model ----
(***************************************************************************)
(* Model of the data synchronisation core of the Glow FM app               *)
(* (src/data/useGlowData.ts): the sync scheduler of the useGlowData hook,  *)
(* the source fetch chain, the response normalizers and the snapshot       *)
(* merge.                                                                  *)
(*                                                                         *)
(* JavaScript values are modelled as tagged records, so that a payload of  *)
(* any shape can flow through the normalizers the way it does in the code: *)
(*   [t |-> "undef"], [t |-> "null"], [t |-> "bool", v |-> b],             *)
(*   [t |-> "num", v |-> n], [t |-> "nan"], [t |-> "str", v |-> s],        *)
(*   [t |-> "arr", v |-> <<...>>], [t |-> "obj", v |-> [key |-> value]].   *)
(* [t |-> "throw"] stands for an exception raised by an expression.        *)
(***************************************************************************)
EXTENDS Integers, Sequences, FiniteSets, TLC

(***************************************************************************)
(* Program constants (useGlowData.ts lines 7-12).                          *)
(***************************************************************************)
ACTIVE_POLL_INTERVAL_MS == 20000
BACKGROUND_POLL_INTERVAL_MS == 120000
REQUEST_TIMEOUT_MS == 12000
REMOTE_GLOW_DATA_URL == ""

(***************************************************************************)
(* Bounds of the model.                                                    *)
(***************************************************************************)
\* Date.now() when the hook is first rendered
StartTime == 120000
\* the clock stops advancing once it has run for Horizon ms
Horizon == 24000
\* Number() of a decimal string is computed for numerals up to MaxNum
MaxNum == 3

(***************************************************************************)
(* JavaScript values.                                                      *)
(***************************************************************************)
Undef == [t |-> "undef"]
Null == [t |-> "null"]
NaN == [t |-> "nan"]
Throw == [t |-> "throw"]
Bool(b) == [t |-> "bool", v |-> b]
Num(n) == [t |-> "num", v |-> n]
Str(s) == [t |-> "str", v |-> s]
Arr(a) == [t |-> "arr", v |-> a]
Obj(o) == [t |-> "obj", v |-> o]
EmptyObj == Obj(<<>>)
EmptyArr == Arr(<<>>)

IsThrow(x) == x.t = "throw"
\* Array.isArray(x)
IsArray(x) == x.t = "arr"
\* typeof x === 'object'  (true of null, arrays and records)
TypeofObject(x) == x.t \in {"null", "arr", "obj"}
\* x === null || x === undefined
Nullish(x) == x.t \in {"undef", "null"}
\* a ?? b
Coalesce(a, b) == IF Nullish(a) THEN b ELSE a

\* the truthiness of a value: !!x
Truthy(x) ==
  CASE x.t \in {"undef", "null", "nan"} -> FALSE
    [] x.t = "bool" -> x.v
    [] x.t = "num" -> x.v # 0
    [] x.t = "str" -> x.v # ""
    [] OTHER -> TRUE

\* x[k] for a value that is not null or undefined (on those the access throws)
GetP(x, k) ==
  CASE x.t = "obj" -> IF k \in DOMAIN x.v THEN x.v[k] ELSE Undef
    [] x.t = "arr" -> IF k = "length" THEN Num(Len(x.v)) ELSE Undef
    [] x.t = "str" -> IF k = "length" THEN Num(Len(x.v)) ELSE Undef
    [] OTHER -> Undef

\* x?.k
OptGet(x, k) == IF Nullish(x) THEN Undef ELSE GetP(x, k)

\* k in x, for a record or an array x
HasKey(x, k) ==
  CASE x.t = "obj" -> k \in DOMAIN x.v
    [] x.t = "arr" -> k = "length"
    [] OTHER -> FALSE

\* the own enumerable keys of a value, as Object.keys / a spread sees them
IndexKeys(n) == {ToString(i - 1) : i \in 1..n}
KeysOf(x) ==
  CASE x.t = "obj" -> DOMAIN x.v
    [] x.t = "arr" -> IndexKeys(Len(x.v))
    [] x.t = "str" -> IndexKeys(Len(x.v))
    [] OTHER -> {}

\* the value a spread or Object.entries reads under an own key
OwnValue(x, k) ==
  CASE x.t = "obj" -> x.v[k]
    [] x.t = "arr" -> x.v[CHOOSE i \in 1..Len(x.v) : ToString(i - 1) = k]
    [] OTHER -> Str("?")

\* { ...a, ...b } for a record a: the own keys of b override those of a
Spread(a, b) ==
  Obj([k \in DOMAIN a.v \cup KeysOf(b) |->
         IF k \in KeysOf(b) THEN OwnValue(b, k) ELSE a.v[k]])

\* { ...a, k: x }
With(a, k, x) ==
  Obj([j \in DOMAIN a.v \cup {k} |-> IF j = k THEN x ELSE a.v[j]])

RECURSIVE ToStr(_)
RECURSIVE JoinStr(_)
\* Array.prototype.join(','): null and undefined elements give ''
JoinStr(s) ==
  IF s = <<>> THEN ""
  ELSE LET h == IF Nullish(Head(s)) THEN "" ELSE ToStr(Head(s))
       IN IF Len(s) = 1 THEN h ELSE h \o "," \o JoinStr(Tail(s))
\* String(x), and the text a template literal inserts for x
ToStr(x) ==
  CASE x.t = "str" -> x.v
    [] x.t = "num" -> ToString(x.v)
    [] x.t = "bool" -> IF x.v THEN "true" ELSE "false"
    [] x.t = "null" -> "null"
    [] x.t = "undef" -> "undefined"
    [] x.t = "nan" -> "NaN"
    [] x.t = "arr" -> JoinStr(x.v)
    [] OTHER -> "[object Object]"

\* Number(x)
ToNumber(x) ==
  CASE x.t = "num" -> x
    [] x.t = "bool" -> Num(IF x.v THEN 1 ELSE 0)
    [] x.t = "null" -> Num(0)
    [] x.t = "str" ->
         IF x.v = "" THEN Num(0)
         ELSE IF \E n \in 0..MaxNum : ToString(n) = x.v
              THEN Num(CHOOSE n \in 0..MaxNum : ToString(n) = x.v)
              ELSE NaN
    [] x.t = "arr" -> IF x.v = <<>> THEN Num(0) ELSE NaN
    [] OTHER -> NaN

\* s.map(f) on the elements of an array; an exception in f ends the map
MapArr(F(_), s) ==
  LET r == [i \in DOMAIN s |-> F(s[i])]
  IN IF \E i \in DOMAIN r : IsThrow(r[i]) THEN Throw ELSE Arr(r)

\* some value of S is an exception
AnyThrow(S) == \E x \in S : IsThrow(x)

\* F(e), with e evaluated once however often F reads its argument
Apply(F(_), e) == CHOOSE r \in {F(x) : x \in {e}} : TRUE

(***************************************************************************)
(* Response normalizer, API-bundle path (useGlowData.ts lines 258-389).    *)
(***************************************************************************)
SITE == "https://glowfmradio.com"

\* String(a ?? '')
StrOr(a) == Str(ToStr(Coalesce(a, Str(""))))

mapApiNewsCard(item) ==
  IF Nullish(item) THEN Throw
  ELSE Obj([
    title |-> StrOr(GetP(item, "title")),
    category |-> Str(ToStr(Coalesce(OptGet(GetP(item, "category"), "name"),
                           Coalesce(GetP(item, "category"), Str(""))))),
    views |-> StrOr(GetP(item, "views")),
    date |-> Str(ToStr(Coalesce(GetP(item, "date"),
                       Coalesce(GetP(item, "published_at"), Str(""))))),
    read |-> Str(ToStr(Coalesce(GetP(item, "read_time"),
                       Coalesce(GetP(item, "read"), Str(""))))),
    excerpt |-> StrOr(GetP(item, "excerpt")),
    image |-> Str(ToStr(Coalesce(GetP(item, "image"),
                        Coalesce(GetP(item, "featured_image"), Str(""))))),
    link |-> Coalesce(GetP(item, "link"),
               IF Truthy(GetP(item, "slug"))
               THEN Str(SITE \o "/news/" \o ToStr(GetP(item, "slug")))
               ELSE Str(""))])

mapApiBlogCard(item) ==
  IF Nullish(item) THEN Throw
  ELSE Obj([
    title |-> StrOr(GetP(item, "title")),
    category |-> Str(ToStr(Coalesce(OptGet(GetP(item, "category"), "name"),
                           Coalesce(GetP(item, "category"), Str(""))))),
    views |-> StrOr(GetP(item, "views")),
    date |-> Str(ToStr(Coalesce(GetP(item, "date"),
                       Coalesce(GetP(item, "published_at"), Str(""))))),
    read |-> Str(ToStr(Coalesce(GetP(item, "read_time"),
                       Coalesce(GetP(item, "read"), Str(""))))),
    excerpt |-> StrOr(GetP(item, "excerpt")),
    author |-> StrOr(GetP(item, "author")),
    authorRole |-> Str(ToStr(Coalesce(GetP(item, "authorRole"),
                             Coalesce(GetP(item, "author_role"), Str(""))))),
    image |-> Str(ToStr(Coalesce(GetP(item, "image"),
                        Coalesce(GetP(item, "featured_image"), Str(""))))),
    link |-> Coalesce(GetP(item, "link"),
               IF Truthy(GetP(item, "slug"))
               THEN Str(SITE \o "/blog/" \o ToStr(GetP(item, "slug")))
               ELSE Str(""))])

mapApiEpisode(item) ==
  IF Nullish(item) THEN Throw
  ELSE Obj([
    title |-> StrOr(GetP(item, "title")),
    show |-> Str(ToStr(Coalesce(GetP(item, "show_title"),
                       Coalesce(GetP(item, "show"), Str(""))))),
    duration |-> StrOr(GetP(item, "duration")),
    date |-> Str(ToStr(Coalesce(GetP(item, "published_at"),
                       Coalesce(GetP(item, "date"), Str(""))))),
    listens |-> Str(ToStr(Coalesce(GetP(item, "plays"),
                          Coalesce(GetP(item, "listens"), Str(""))))),
    image |-> StrOr(GetP(item, "image")),
    link |-> Coalesce(GetP(item, "link"),
               IF Truthy(GetP(item, "slug")) /\ Truthy(GetP(item, "show_slug"))
               THEN Str(SITE \o "/podcasts/" \o ToStr(GetP(item, "show_slug"))
                             \o "/" \o ToStr(GetP(item, "slug")))
               ELSE Str("")),
    description |-> StrOr(GetP(item, "description")),
    video_url |-> Str(ToStr(Coalesce(GetP(item, "video_url"),
                            Coalesce(GetP(item, "youtube_url"), Str("")))))])

mapApiFeaturedShow(item) ==
  IF Nullish(item) THEN Throw
  ELSE Obj([
    title |-> StrOr(GetP(item, "title")),
    category |-> Str(ToStr(Coalesce(GetP(item, "category"),
                           Coalesce(OptGet(GetP(item, "category"), "name"),
                                    Str("Show"))))),
    duration |-> IF Truthy(GetP(item, "typical_duration"))
                 THEN Str(ToStr(GetP(item, "typical_duration")) \o " mins")
                 ELSE Str("45 mins"),
    host |-> Str(ToStr(Coalesce(GetP(item, "host"),
                       Coalesce(OptGet(GetP(item, "primary_host"), "name"),
                                Str("Glow FM"))))),
    description |-> StrOr(GetP(item, "description")),
    status |-> IF Truthy(GetP(item, "is_featured"))
               THEN Str("Featured") ELSE Str("Live"),
    url |-> IF Truthy(GetP(item, "slug"))
            THEN Str(SITE \o "/shows/" \o ToStr(GetP(item, "slug")))
            ELSE Str("")])

\* day[0].toUpperCase() + day.slice(1), on the weekday keys of the schedule
\* endpoint; any other key is already in its display form
UpperFirst(day) ==
  CASE day = "monday" -> "Monday"
    [] day = "tuesday" -> "Tuesday"
    [] day = "wednesday" -> "Wednesday"
    [] day = "thursday" -> "Thursday"
    [] day = "friday" -> "Friday"
    [] day = "saturday" -> "Saturday"
    [] day = "sunday" -> "Sunday"
    [] OTHER -> day

\* `${start ?? ''} - ${end ?? ''}`.trim(), for times without outer blanks
TimeRange(start, end) ==
  LET a == ToStr(Coalesce(start, Str("")))
      b == ToStr(Coalesce(end, Str("")))
  IN CASE a = "" /\ b = "" -> "-"
       [] a = "" -> "- " \o b
       [] b = "" -> a \o " -"
       [] OTHER -> a \o " - " \o b

mapApiSlot(slot) ==
  IF Nullish(slot) THEN Throw
  ELSE LET show == GetP(slot, "show")
       IN Obj([
    time |-> Coalesce(GetP(slot, "time_range"),
               Str(TimeRange(GetP(slot, "start_time"), GetP(slot, "end_time")))),
    title |-> Coalesce(OptGet(show, "title"), Str("Glow FM")),
    host |-> Coalesce(OptGet(GetP(slot, "host"), "name"),
               Coalesce(OptGet(OptGet(show, "primary_host"), "name"),
                        Str("Glow FM"))),
    status |-> Str("Live"),
    url |-> IF Truthy(OptGet(show, "slug"))
            THEN Str(SITE \o "/shows/" \o ToStr(GetP(show, "slug")))
            ELSE Str("")])

\* the schedule endpoint's weekday mapping; two keys with the same display
\* form write the same entry, the later one last
mapApiSchedule(data) ==
  LET src == Coalesce(data, EmptyObj)
      days == KeysOf(src)
      slotsOf(k) == IF IsArray(OwnValue(src, k))
                    THEN MapArr(mapApiSlot, OwnValue(src, k).v)
                    ELSE EmptyArr
      keyFor(d) == IF \E k \in days : k = d /\ UpperFirst(k) = d THEN d
                   ELSE CHOOSE k \in days : UpperFirst(k) = d
  IN IF \E k \in days : IsThrow(slotsOf(k)) THEN Throw
     ELSE Obj([d \in {UpperFirst(k) : k \in days} |-> slotsOf(keyFor(d))])

mapApiShow(show) ==
  IF Nullish(show) THEN Throw
  ELSE Obj([
    title |-> StrOr(GetP(show, "title")),
    category |-> Str(ToStr(Coalesce(OptGet(GetP(show, "category"), "name"),
                           Str("Show")))),
    duration |-> IF Truthy(GetP(show, "typical_duration"))
                 THEN Str(ToStr(GetP(show, "typical_duration")) \o " mins")
                 ELSE Str("45 mins"),
    host |-> Str(ToStr(Coalesce(OptGet(GetP(show, "primary_host"), "name"),
                       Str("Glow FM")))),
    description |-> StrOr(GetP(show, "description")),
    status |-> IF Truthy(GetP(show, "is_featured"))
               THEN Str("Featured") ELSE Str("Live"),
    url |-> IF Truthy(GetP(show, "slug"))
            THEN Str(SITE \o "/shows/" \o ToStr(GetP(show, "slug")))
            ELSE Str("")])

\* items is an array (fetchApiBundle checks it before the call)
mapApiShows(items) == MapArr(mapApiShow, items.v)

mapApiShowCategory(item) ==
  IF Nullish(item) THEN Throw
  ELSE Obj([
    name |-> StrOr(GetP(item, "name")),
    count |-> ToNumber(Coalesce(GetP(item, "count"), Num(0)))])

mapApiShowCategories(items) == MapArr(mapApiShowCategory, items.v)

\* Array.isArray(x) ? x.map(f) : []
MapIfArray(F(_), x) == IF IsArray(x) THEN MapArr(F, x.v) ELSE EmptyArr

mapApiHomePayload(payload) ==
  LET hero == Coalesce(GetP(payload, "homeContent"),
                Coalesce(GetP(payload, "home"), EmptyObj))
      latestNews == MapIfArray(mapApiNewsCard, GetP(payload, "latestNews"))
      latestBlogPosts == MapIfArray(mapApiBlogCard, GetP(payload, "latestBlogPosts"))
      latestPodcastEpisodes ==
        MapIfArray(mapApiEpisode, GetP(payload, "latestPodcastEpisodes"))
      cs == GetP(payload, "currentShow")
      currentShow ==
        IF Truthy(cs)
        THEN Obj([title |-> StrOr(GetP(cs, "title")),
                  slug |-> Coalesce(GetP(cs, "slug"), Str("")),
                  host |-> Coalesce(GetP(cs, "host"), Str("")),
                  host_slug |-> Coalesce(GetP(cs, "host_slug"), Str("")),
                  time |-> Coalesce(GetP(cs, "time"), Str(""))])
        ELSE Undef
      trendingNews == MapIfArray(mapApiNewsCard, GetP(payload, "trendingNews"))
      featuredNews == MapIfArray(mapApiNewsCard, GetP(payload, "featuredNews"))
      mostViewedNews == MapIfArray(mapApiNewsCard, GetP(payload, "mostViewedNews"))
      otherNews == IF IsArray(GetP(payload, "otherNews"))
                   THEN MapArr(mapApiNewsCard, GetP(payload, "otherNews").v)
                   ELSE latestNews
      featuredShows == MapIfArray(mapApiFeaturedShow, GetP(payload, "featuredShows"))
      upcomingEvents == IF IsArray(GetP(payload, "upcomingEvents"))
                        THEN GetP(payload, "upcomingEvents") ELSE EmptyArr
  IN IF AnyThrow({latestNews, latestBlogPosts, latestPodcastEpisodes, trendingNews,
                  featuredNews, mostViewedNews, otherNews, featuredShows})
     THEN Throw
     ELSE Obj([
       home |-> Obj([
         hero |-> hero,
         currentShow |-> currentShow,
         stats |-> Coalesce(GetP(payload, "stats"), EmptyArr),
         trendingNews |-> trendingNews,
         featuredNews |-> featuredNews,
         mostViewedNews |-> mostViewedNews,
         otherNews |-> otherNews,
         latestNews |-> latestNews,
         latestBlogPosts |-> latestBlogPosts,
         latestPodcastEpisodes |-> latestPodcastEpisodes,
         featuredShows |-> featuredShows,
         upcomingEvents |-> upcomingEvents]),
       newsPosts |-> latestNews,
       blogPosts |-> latestBlogPosts,
       podcasts |-> latestPodcastEpisodes])

(***************************************************************************)
(* Snapshot merge (useGlowData.ts lines 182-218).                          *)
(***************************************************************************)
\* variant of the ?.length tests of lines 198-217 that takes the patch's
\* list whenever it is present, empty or not
PatchWhenPresent(p, b) == IF Nullish(p) THEN b ELSE p

\* p?.length ? p : b
NonEmptyOr(p, b) == IF Truthy(OptGet(p, "length")) THEN p ELSE b

HomeLists == {"stats", "trendingNews", "featuredNews", "mostViewedNews", "otherNews",
              "latestNews", "latestBlogPosts", "latestPodcastEpisodes", "featuredShows"}
TopLists == {"podcasts", "blogPosts", "newsPosts"}

\* variant of lines 190-197 that takes the patch's record whole:
\* NestedKeysKept depends on the spread of the old record
NestedReplaced(old, new) == Coalesce(new, EmptyObj)

\* variant of lines 198-217 that takes the patch's list, absent or not:
\* MergeIdentity depends on the fallback to the old list
ListReplaced(old, new) == Coalesce(new, EmptyArr)

\* variant of lines 198-217 that appends the patch's list to the old one:
\* MergeIdempotent depends on the replacement
ListAppended(old, new) ==
  IF Truthy(OptGet(new, "length")) /\ IsArray(new) /\ IsArray(old)
  THEN Arr(old.v \o new.v) ELSE old

\* variant of lines 185-186 and 188-189 without ...base: SnapshotTotal
\* depends on the spread of the old snapshot
PatchOnly(base, patch) == patch

\* the merged value of home.hero and of home.currentShow
MergeNested(old, new) == Spread(Spread(EmptyObj, old), Coalesce(new, EmptyObj))

\* the merged value of a list field the merge names
MergeList(old, new) == NonEmptyOr(new, old)

\* the merged value of a field the merge does not name: the patch's, if present
MergeOther(base, patch) == Spread(base, patch)

mergeGlowData(base, patch) ==
  LET homePatch == Coalesce(GetP(patch, "home"), EmptyObj)
      baseHome == GetP(base, "home")
      spreadHome == MergeOther(baseHome, homePatch)
      home == Obj([k \in DOMAIN spreadHome.v \cup HomeLists \cup {"hero", "currentShow"} |->
                CASE k \in {"hero", "currentShow"} ->
                       MergeNested(GetP(baseHome, k), GetP(homePatch, k))
                  [] k \in HomeLists ->
                       MergeList(GetP(baseHome, k), GetP(homePatch, k))
                  [] OTHER -> spreadHome.v[k]])
      spreadTop == MergeOther(base, patch)
  IN Obj([k \in DOMAIN spreadTop.v \cup TopLists \cup {"home"} |->
        CASE k = "home" -> home
          [] k \in TopLists -> MergeList(GetP(base, k), GetP(patch, k))
          [] OTHER -> spreadTop.v[k]])

(***************************************************************************)
(* fetchApiBundle after its three requests have resolved                   *)
(* (useGlowData.ts lines 398-416): the patch, null, or an exception.       *)
(***************************************************************************)
\* lines 400-402: what the home payload adds to the patch
HomePart(homePayload) ==
  IF Truthy(homePayload) /\ TypeofObject(homePayload)
  THEN mapApiHomePayload(homePayload) ELSE EmptyObj

\* lines 404-406
SchedulePart(schedulePayload) ==
  IF Truthy(OptGet(schedulePayload, "data"))
  THEN Apply(LAMBDA schedule : IF IsThrow(schedule) THEN Throw
                               ELSE Obj([schedule |-> schedule]),
             mapApiSchedule(OptGet(schedulePayload, "data")))
  ELSE EmptyObj

\* lines 408-410
ShowsPart(showsPayload) ==
  IF IsArray(OptGet(showsPayload, "data"))
  THEN Apply(LAMBDA shows : IF IsThrow(shows) THEN Throw ELSE Obj([shows |-> shows]),
             mapApiShows(OptGet(showsPayload, "data")))
  ELSE EmptyObj

\* lines 412-414
CategoriesPart(showsPayload) ==
  IF IsArray(OptGet(OptGet(showsPayload, "meta"), "categories"))
  THEN Apply(LAMBDA cats : IF IsThrow(cats) THEN Throw
                           ELSE Obj([showCategories |-> cats]),
             mapApiShowCategories(OptGet(OptGet(showsPayload, "meta"), "categories")))
  ELSE EmptyObj

\* line 416, for the parts the statements above have assigned in turn
AssemblePatch(parts) ==
  IF \E i \in DOMAIN parts : IsThrow(parts[i]) THEN Throw
  ELSE Apply(LAMBDA patch : IF KeysOf(patch) # {} THEN patch ELSE Null,
             Spread(Spread(Spread(parts[1], parts[2]), parts[3]), parts[4]))

ApiPatch(homePayload, schedulePayload, showsPayload) ==
  Apply(AssemblePatch,
        <<HomePart(homePayload), SchedulePart(schedulePayload),
          ShowsPart(showsPayload), CategoriesPart(showsPayload)>>)

(***************************************************************************)
(* Response normalizer, scraped-embedded-state path                        *)
(* (useGlowData.ts lines 14-180).                                          *)
(*                                                                         *)
(* A home page is [marker, attr]: whether the text holds a                 *)
(* wire:snapshot="..." attribute with a non-empty value, and that value.   *)
(* The attribute value is [ok, value]: whether its HTML-unescaped text is  *)
(* JSON, and the tree JSON.parse gives for it.                             *)
(***************************************************************************)
Html(marker, attr) == [marker |-> marker, attr |-> attr]
JsonText(value) == [ok |-> TRUE, value |-> value]
BadJsonText == [ok |-> FALSE]

\* JSON.parse(htmlUnescape(text))
JsonParse(text) == IF text.ok THEN text.value ELSE Throw

extractWireSnapshot(html) ==
  IF ~html.marker THEN Null
  ELSE LET parsed == JsonParse(html.attr)
       IN IF IsThrow(parsed) THEN Null ELSE parsed

\* a pruning step that keeps the metadata records
KeepWrappers(value) == value

RECURSIVE stripLivewire(_)
stripLivewire(value) ==
  CASE value.t = "arr" ->
         Arr(SelectSeq([i \in DOMAIN value.v |-> stripLivewire(value.v[i])],
                       LAMBDA item : ~Nullish(item)))
    [] value.t = "obj" ->
         IF "s" \in DOMAIN value.v THEN Undef
         ELSE Obj([k \in {j \in DOMAIN value.v : stripLivewire(value.v[j]) # Undef} |->
                     stripLivewire(value.v[k])])
    [] OTHER -> value

\* an unwrap that opens one singleton list only
UnwrapOnce(entry) ==
  IF IsArray(entry) /\ Len(entry.v) = 1 THEN entry.v[1] ELSE entry

RECURSIVE unwrapSingleton(_)
unwrapSingleton(entry) ==
  IF IsArray(entry) /\ Len(entry.v) = 1 THEN unwrapSingleton(entry.v[1]) ELSE entry

normalizeList(value) ==
  IF ~IsArray(value) THEN EmptyArr
  ELSE LET flattened == [i \in DOMAIN value.v |-> unwrapSingleton(value.v[i])]
       IN IF Len(flattened) = 1 /\ IsArray(flattened[1])
          THEN Arr([i \in DOMAIN flattened[1].v |-> unwrapSingleton(flattened[1].v[i])])
          ELSE Arr(flattened)

\* list[0]
First(list) == IF Len(list.v) > 0 THEN list.v[1] ELSE Undef

\* typeof entry.k === 'string' ? entry.k : ''
StringField(entry, k) ==
  IF GetP(entry, k).t = "str" THEN GetP(entry, k).v ELSE ""

\* items.map(f).filter(Boolean), where f gives null for an entry that is
\* falsy or not of type object
MapEntries(F(_), items) ==
  Arr(SelectSeq([i \in DOMAIN items.v |->
                   IF Truthy(items.v[i]) /\ TypeofObject(items.v[i])
                   THEN F(items.v[i]) ELSE Null],
                LAMBDA card : Truthy(card)))

LatestNewsPost(entry) ==
  LET slug == StringField(entry, "slug")
      link == StringField(entry, "link")
  IN Obj([
    title |-> StrOr(GetP(entry, "title")),
    category |-> StrOr(GetP(entry, "category")),
    views |-> StrOr(GetP(entry, "views")),
    date |-> Str(ToStr(Coalesce(GetP(entry, "date"),
                       Coalesce(GetP(entry, "published_at"), Str(""))))),
    read |-> Str(ToStr(Coalesce(GetP(entry, "read_time"),
                       Coalesce(GetP(entry, "read"), Str(""))))),
    excerpt |-> StrOr(GetP(entry, "excerpt")),
    image |-> StrOr(GetP(entry, "image")),
    link |-> IF link # "" THEN Str(link)
             ELSE IF slug # "" THEN Str(SITE \o "/news/" \o slug) ELSE Str("")])

mapLatestNewsToPosts(items) == MapEntries(LatestNewsPost, items)

LatestBlogPost(entry) ==
  LET slug == StringField(entry, "slug")
      link == StringField(entry, "link")
  IN Obj([
    title |-> StrOr(GetP(entry, "title")),
    category |-> StrOr(GetP(entry, "category")),
    views |-> StrOr(GetP(entry, "views")),
    date |-> Str(ToStr(Coalesce(GetP(entry, "date"),
                       Coalesce(GetP(entry, "published_at"), Str(""))))),
    read |-> Str(ToStr(Coalesce(GetP(entry, "read_time"),
                       Coalesce(GetP(entry, "read"), Str(""))))),
    excerpt |-> StrOr(GetP(entry, "excerpt")),
    author |-> StrOr(GetP(entry, "author")),
    authorRole |-> StrOr(GetP(entry, "authorRole")),
    image |-> StrOr(GetP(entry, "image")),
    link |-> IF link # "" THEN Str(link)
             ELSE IF slug # "" THEN Str(SITE \o "/blog/" \o slug) ELSE Str("")])

mapLatestBlogToPosts(items) == MapEntries(LatestBlogPost, items)

\* an episode card that carries the scraped link and never builds one
EpisodeLinkOnly(entry) ==
  Obj([title |-> StrOr(GetP(entry, "title")),
       link |-> Str(StringField(entry, "link"))])

LatestPodcast(entry) ==
  LET slug == StringField(entry, "slug")
      showSlug == StringField(entry, "show_slug")
      link == StringField(entry, "link")
  IN Obj([
    title |-> StrOr(GetP(entry, "title")),
    show |-> Str(ToStr(Coalesce(GetP(entry, "show_title"),
                       Coalesce(GetP(entry, "show"), Str(""))))),
    duration |-> StrOr(GetP(entry, "duration")),
    date |-> Str(ToStr(Coalesce(GetP(entry, "published_at"),
                       Coalesce(GetP(entry, "date"), Str(""))))),
    listens |-> Str(ToStr(Coalesce(GetP(entry, "plays"),
                          Coalesce(GetP(entry, "listens"), Str(""))))),
    image |-> StrOr(GetP(entry, "image")),
    link |-> IF link # "" THEN Str(link)
             ELSE IF slug # "" /\ showSlug # ""
                  THEN Str(SITE \o "/podcasts/" \o showSlug \o "/" \o slug)
                  ELSE Str(""),
    description |-> StrOr(GetP(entry, "description"))])

mapLatestPodcasts(items) == MapEntries(LatestPodcast, items)

\* normalizeList(x)[0] ?? {}, kept only if it is truthy and of type object
FirstRecord(x) ==
  LET src == Coalesce(First(normalizeList(x)), EmptyObj)
  IN IF Truthy(src) /\ TypeofObject(src) THEN src ELSE EmptyObj

\* lines 141-179, for cleaned = stripLivewire(rawData)
PatchFromCleaned(cleaned) ==
  IF ~Truthy(cleaned) \/ ~TypeofObject(cleaned) THEN Null
  ELSE LET source == cleaned
           latestNews == normalizeList(GetP(source, "latestNews"))
           latestBlogPosts == normalizeList(GetP(source, "latestBlogPosts"))
           latestPodcastEpisodes == normalizeList(GetP(source, "latestPodcastEpisodes"))
       IN Obj([
       home |-> Obj([
         hero |-> FirstRecord(GetP(source, "homeContent")),
         currentShow |-> FirstRecord(GetP(source, "currentShow")),
         stats |-> normalizeList(GetP(source, "stats")),
         trendingNews |-> normalizeList(GetP(source, "trendingNews")),
         featuredNews |-> normalizeList(GetP(source, "featuredNews")),
         mostViewedNews |-> normalizeList(GetP(source, "mostViewedNews")),
         otherNews |-> latestNews,
         latestNews |-> latestNews,
         latestBlogPosts |-> latestBlogPosts,
         latestPodcastEpisodes |-> latestPodcastEpisodes,
         featuredShows |-> normalizeList(GetP(source, "featuredShows"))]),
       newsPosts |-> mapLatestNewsToPosts(latestNews),
       blogPosts |-> mapLatestBlogToPosts(latestBlogPosts),
       podcasts |-> mapLatestPodcasts(latestPodcastEpisodes)])

buildPatchFromSnapshot(snapshot) ==
  Apply(PatchFromCleaned, stripLivewire(Coalesce(GetP(snapshot, "data"), snapshot)))

\* fetchLivewireHome once the page has arrived with a success status
LivewirePatch(html) ==
  LET snapshot == extractWireSnapshot(html)
  IN IF ~Truthy(snapshot) \/ ~TypeofObject(snapshot) THEN Null
     ELSE buildPatchFromSnapshot(snapshot)

(***************************************************************************)
(* The seeded snapshot.  GLOW_DATA is imported from ./glowData             *)
(* (useGlowData.ts line 3), which holds the static bundle: a complete      *)
(* ContentSnapshot, every field present.                                   *)
(***************************************************************************)
SeedCard(title) == Obj([title |-> Str(title), link |-> Str("")])
SeedHero == Obj([hero_title |-> Str("Glow FM"), hero_badge |-> Str("99.1")])
SeedCurrentShow ==
  Obj([title |-> Str("Morning Glow"), slug |-> Str("morning-glow"),
       host |-> Str("Tolu"), host_slug |-> Str("tolu"), time |-> Str("6:00 - 9:00")])
GLOW_DATA ==
  Obj([
    home |-> Obj([
      hero |-> SeedHero,
      currentShow |-> SeedCurrentShow,
      stats |-> Arr(<<Obj([label |-> Str("Listeners"), number |-> Str("1M")])>>),
      trendingNews |-> Arr(<<SeedCard("trending")>>),
      featuredNews |-> Arr(<<SeedCard("featured")>>),
      mostViewedNews |-> Arr(<<SeedCard("viewed")>>),
      otherNews |-> Arr(<<SeedCard("other")>>),
      latestNews |-> Arr(<<SeedCard("latest")>>),
      latestBlogPosts |-> Arr(<<SeedCard("blog")>>),
      latestPodcastEpisodes |-> Arr(<<SeedCard("episode")>>),
      featuredShows |-> Arr(<<SeedCard("show")>>),
      upcomingEvents |-> Arr(<<SeedCard("event")>>)]),
    schedule |-> Obj([Monday |-> Arr(<<SeedCard("slot")>>)]),
    shows |-> Arr(<<SeedCard("show")>>),
    showCategories |-> Arr(<<Obj([name |-> Str("All Shows"), count |-> Num(1)])>>),
    newsPosts |-> Arr(<<SeedCard("news")>>),
    blogPosts |-> Arr(<<SeedCard("blog")>>),
    podcasts |-> Arr(<<SeedCard("podcast")>>),
    team |-> Arr(<<SeedCard("member")>>),
    oaps |-> Arr(<<SeedCard("oap")>>),
    about |-> Obj([story |-> Str("about")]),
    contact |-> Obj([phone |-> Str("0800")])])

(***************************************************************************)
(* The remote side: the bodies an endpoint may answer with.                *)
(***************************************************************************)
\* the episode records either source lists: slugs only, a link of its own,
\* a null link, the show's slug missing, nothing but a title
Episodes ==
  Arr(<<Obj([title |-> Str("Ep 1"), slug |-> Str("ep1"), show_slug |-> Str("morning")]),
        Obj([title |-> Str("Ep 2"), slug |-> Str("ep2"), show_slug |-> Str("jazz"),
             link |-> Str("https://cdn.example/ep2")]),
        Obj([title |-> Str("Ep 3"), slug |-> Str("ep3"), show_slug |-> Str("jazz"),
             link |-> Null]),
        Obj([title |-> Str("Ep 4"), slug |-> Str("ep4")]),
        Obj([title |-> Str("Ep 5")])>>)

\* GET /api/home
HomeFull ==
  Obj([
    homeContent |-> Obj([hero_title |-> Str("Live")]),
    currentShow |-> Obj([title |-> Str("Drive Time"), host |-> Str("Ada"),
                         time |-> Str("16:00 - 19:00")]),
    latestNews |-> Arr(<<Obj([title |-> Str("Rain"), slug |-> Str("rain"),
                              category |-> Obj([name |-> Str("News")])])>>),
    latestPodcastEpisodes |-> Episodes,
    latestBlogPosts |-> Arr(<<Obj([title |-> Str("Behind the mic"), slug |-> Str("mic"),
                                   category |-> Obj([name |-> Str("Studio")])])>>),
    featuredShows |-> Arr(<<Obj([title |-> Str("Drive Time"), slug |-> Str("drive"),
                                 category |-> Obj([name |-> Str("Talk")])])>>),
    upcomingEvents |-> Arr(<<Obj([title |-> Str("Gala")])>>)])
\* a home summary between two shows' hosts: no host, no lists
HomePartial == Obj([currentShow |-> Obj([title |-> Str("Night Shift")])])
\* a home summary whose news list holds a null entry
HomeMalformed == Obj([latestNews |-> Arr(<<Null>>)])
HomeBodies == {HomeFull, HomeMalformed}

\* GET /api/schedule
ScheduleBody ==
  Obj([data |-> Obj([monday |-> Arr(<<Obj([time_range |-> Str("6 - 9"),
                                            show |-> Obj([title |-> Str("Morning Glow"),
                                                          slug |-> Str("morning")])])>>)])])
ScheduleBodies == {ScheduleBody}

\* GET /api/shows?per_page=9&sort=popular
ShowsFull ==
  Obj([data |-> Arr(<<Obj([title |-> Str("Drive Time"), slug |-> Str("drive"),
                           category |-> Obj([name |-> Str("Talk")])])>>),
       meta |-> Obj([categories |-> Arr(<<Obj([name |-> Str("Talk"), count |-> Num(1)])>>)])])
\* a listing whose filter matched nothing
ShowsNone == Obj([data |-> EmptyArr, meta |-> Obj([categories |-> EmptyArr])])
ShowsBodies == {ShowsFull}

ApiUrls == {"home", "schedule", "shows"}
ApiBodies(url) ==
  CASE url = "home" -> HomeBodies
    [] url = "schedule" -> ScheduleBodies
    [] OTHER -> ShowsBodies

\* GET / : the Livewire component state of the home page.  A Livewire array
\* or record is the pair of its content and a metadata record {s: ...}.
Wire(content) == Arr(<<content, Obj([s |-> Str("arr")])>>)
WireData ==
  Obj([data |-> Obj([
         currentShow |-> Wire(Obj([title |-> Str("Evening Jazz"), host |-> Str("Kemi")])),
         latestNews |-> Wire(Arr(<<Wire(Obj([title |-> Str("Flood"),
                                             slug |-> Str("flood")]))>>)),
         latestPodcastEpisodes |->
           Wire(Arr([i \in DOMAIN Episodes.v |-> Wire(Episodes.v[i])]))]),
       checksum |-> Str("c0ffee")])
HomePageValid == Html(TRUE, JsonText(WireData))
HomePageNoMarker == Html(FALSE, BadJsonText)
HomePageBadJson == Html(TRUE, BadJsonText)
HomePages == {HomePageValid, HomePageNoMarker, HomePageBadJson}

\* a component state that carries Livewire metadata records in more places
\* and lists nested in singleton lists
WireNested ==
  Obj([data |-> Obj([
    homeContent |-> Arr(<<Obj([s |-> Str("checksum"), hero_title |-> Str("Hidden")])>>),
    currentShow |-> Arr(<<Obj([title |-> Str("Late Show"),
                               memo |-> Obj([s |-> Str("checksum"), value |-> Str("memo")])])>>),
    stats |-> Arr(<<Obj([s |-> Str("checksum"), label |-> Str("Gone")]),
                    Obj([label |-> Str("Shows"), number |-> Str("12")]),
                    Null>>),
    trendingNews |-> Arr(<<Arr(<<Obj([a |-> Num(1)])>>)>>),
    featuredNews |-> Arr(<<Obj([a |-> Num(1)]), Obj([a |-> Num(2)])>>),
    mostViewedNews |-> Arr(<<Arr(<<Arr(<<Obj([a |-> Num(1)]), Obj([a |-> Num(2)])>>)>>)>>),
    featuredShows |-> Arr(<<EmptyArr>>)])])
\* component states whose root, or whose data, is itself a metadata record
WireRootMarked == Obj([s |-> Str("checksum"), value |-> Num(1)])
WireDataMarked ==
  Obj([data |-> Obj([s |-> Str("checksum"),
                     latestNews |-> Arr(<<Obj([title |-> Str("Lost")])>>)])])
RoundSnapshots == {WireNested, WireRootMarked, WireDataMarked}
RoundHomePages == HomePages \cup {Html(TRUE, JsonText(snapshot)) : snapshot \in RoundSnapshots}

(***************************************************************************)
(* The hook's state (useGlowData.ts lines 419-424) and its environment.    *)
(***************************************************************************)
VARIABLES
  data,         \* useState(GLOW_DATA): the store's snapshot
  isSyncing,    \* useState(false)
  lastSyncRef,  \* useRef(0): Date.now() of the last successful round
  syncLock,     \* useRef(false): the in-progress guard
  appState,     \* useRef(AppState.currentState)
  mounted,      \* whether the effect of lines 451-468 has run
  now,          \* Date.now()
  timerDue,     \* when the setInterval callback of line 460 is next due
  rounds,       \* the running executions of the body of sync (lines 433-446)
  ev            \* the last step: its handler, its input and what it did

vars == <<data, isSyncing, lastSyncRef, syncLock, appState, mounted, now,
          timerDue, rounds, ev>>

AppStates == {"active", "background", "inactive"}

Pending == [t |-> "pending"]
\* a round awaiting Promise.all of the three API requests, issued at `start`
ApiRound(start) ==
  [pc |-> "api", start |-> start, home |-> Pending, schedule |-> Pending,
   shows |-> Pending]
\* a round awaiting the home page, requested at `start`
LivewireRound(start) == [pc |-> "livewire", start |-> start]

\* what the last step did: the result of its call of sync ("none" when it made
\* no call) and whether the call was forced; the outcome of the request it
\* answered; what became of the round ("pending": still awaiting requests of
\* the same source, "next": went on to the next source, "merged", "nodata",
\* "error": left through the catch block); the patch it merged; the promise
\* of the call of sync the step made or resumed ("none" when it did neither)
Event(call, force, outcome, round, patch) ==
  [call |-> call, force |-> force, outcome |-> outcome, round |-> round,
   patch |-> patch,
   promise |-> IF call \in {"locked", "throttled"} THEN "resolved"
               ELSE IF call = "started" \/ round \in {"pending", "next"} THEN "pending"
               ELSE "none"]
NoEvent == Event("none", FALSE, "none", "none", Null)
CallEvent(call, force) == Event(call, force, "none", "none", Null)

Init ==
  /\ data = GLOW_DATA
  /\ isSyncing = FALSE
  /\ lastSyncRef = 0
  /\ syncLock = FALSE
  /\ appState \in AppStates
  /\ mounted = FALSE
  /\ now = StartTime
  /\ timerDue = 0
  /\ rounds = <<>>
  /\ ev = NoEvent

(***************************************************************************)
(* sync(force) up to its first await (useGlowData.ts lines 426-436).       *)
(***************************************************************************)
\* variant of line 428 without the guard: OneSyncInFlight depends on it
GuardIgnored == FALSE

\* line 428: if (syncLock.current) return
LockHeld == syncLock

\* variant of lines 429-430 with one interval for every phase:
\* IntervalGating depends on the choice
ActiveIntervalOnly(phase) == ACTIVE_POLL_INTERVAL_MS

\* lines 429-430, for appState.current = phase
PollInterval(phase) ==
  IF phase = "active" THEN ACTIVE_POLL_INTERVAL_MS ELSE BACKGROUND_POLL_INTERVAL_MS

\* variant of line 431 that turns every non-forced call away:
\* BackgroundRetries depends on the comparison with the last success
ThrottledUnforced(force, interval) == ~force

\* line 431: if (!force && Date.now() - lastSyncRef.current < interval) return
Throttled(force, interval) == ~force /\ now - lastSyncRef < interval

\* a call of sync(force) while appState.current = phase
SyncCall(force, phase) ==
  IF LockHeld
  THEN /\ UNCHANGED <<syncLock, isSyncing, rounds>>
       /\ ev' = CallEvent("locked", force)
  ELSE IF Throttled(force, PollInterval(phase))
  THEN /\ UNCHANGED <<syncLock, isSyncing, rounds>>
       /\ ev' = CallEvent("throttled", force)
  ELSE /\ syncLock' = TRUE
       /\ isSyncing' = TRUE
       /\ rounds' = Append(rounds, ApiRound(now))
       /\ ev' = CallEvent("started", force)

(***************************************************************************)
(* The handlers registered by the effect (useGlowData.ts lines 451-470).   *)
(***************************************************************************)
\* the effect itself: the startup sync, the subscription and the timer
Mount ==
  /\ ~mounted
  /\ mounted' = TRUE
  /\ timerDue' = now + ACTIVE_POLL_INTERVAL_MS
  /\ SyncCall(TRUE, appState)
  /\ UNCHANGED <<data, lastSyncRef, appState, now>>

\* variant of line 456 that takes every transition: RequestSources depends on
\* the test
AnyTransition(prevState, state) == TRUE

\* prevState.match(/inactive|background/) && state === 'active'
BecameActive(prevState, state) ==
  prevState \in {"inactive", "background"} /\ state = "active"

\* the AppState 'change' listener
AppStateChange(state) ==
  /\ mounted
  /\ state # appState
  /\ appState' = state
  /\ IF BecameActive(appState, state)
     THEN SyncCall(TRUE, state)
     ELSE /\ UNCHANGED <<syncLock, isSyncing, rounds>>
          /\ ev' = NoEvent
  /\ UNCHANGED <<data, lastSyncRef, mounted, now, timerDue>>

\* the setInterval callback
TimerFire ==
  /\ mounted
  /\ now >= timerDue
  /\ timerDue' = timerDue + ACTIVE_POLL_INTERVAL_MS
  /\ SyncCall(FALSE, appState)
  /\ UNCHANGED <<data, lastSyncRef, appState, mounted, now>>

\* refresh: () => sync(true)
Refresh ==
  /\ mounted
  /\ SyncCall(TRUE, appState)
  /\ UNCHANGED <<data, lastSyncRef, appState, mounted, now, timerDue>>

(***************************************************************************)
(* The body of sync from its first await on (useGlowData.ts lines          *)
(* 436-446), resumed by the answers of the network.                        *)
(***************************************************************************)
Outcomes == {"ok", "status", "badjson", "neterr", "timeout"}

\* variant of line 233 that throws on a status outside 2xx: StatusIsNoData
\* depends on the return of null
StatusThrows(outcome, body) == IF outcome = "ok" THEN body ELSE Throw

\* fetchJson (lines 220-235): the value the promise resolves to, or Throw
\* when it rejects.  fetch rejects on a transport failure and on the abort
\* of the 12 s timer; response.json() rejects on an undecodable body.
FetchJsonResult(outcome, body) ==
  CASE outcome = "ok" -> body
    [] outcome = "status" -> Null
    [] OTHER -> Throw

\* variant of line 238 that requests whatever the URL: SourceOrder depends on it
RemoteAlwaysRequested == TRUE

\* fetchRemoteJson, line 238: whether it issues a request at all
RemoteConfigured == REMOTE_GLOW_DATA_URL # ""

\* fetchRemoteJson, lines 240-241
RemoteJsonResult(outcome, body) ==
  LET payload == FetchJsonResult(outcome, body)
  IN IF IsThrow(payload) THEN Throw
     ELSE IF ~Truthy(payload) \/ ~TypeofObject(payload) \/ ~HasKey(payload, "home")
          THEN Null ELSE payload

\* fetchLivewireHome (lines 244-256)
LivewireResult(outcome, html) ==
  CASE outcome = "ok" -> LivewirePatch(html)
    [] outcome = "status" -> Null
    [] OTHER -> Throw

\* line 437: if (remotePayload)
Usable(payload) == ~IsThrow(payload) /\ Truthy(payload)

\* variant of lines 437-442 that falls back to the seeded snapshot when the
\* round gave nothing: SnapshotChangesInRound depends on the store being
\* written at line 438 alone
StoreReset(payload) == IF Usable(payload) THEN mergeGlowData(data, payload) ELSE GLOW_DATA

\* variant of line 438 that keeps the previous snapshot:
\* SuccessMergesAndStamps depends on the merge
StoreKept(payload) == data

\* variant of line 438 that stores the spread of lines 185-186 alone:
\* WholeSnapshotSwapped depends on the store taking the finished merge
StorePartial(payload) == IF Usable(payload) THEN MergeOther(data, payload) ELSE data

\* variant of line 439 outside the if: FailureLeavesStore depends on line 437
StampAlways(payload) == now

\* variant of lines 443-446 as the tail of the try block, which a rejection
\* skips: GuardTracksRound depends on the finally
LockAfterTryOnly(payload) == IsThrow(payload)

\* line 438: setData((prev) => mergeGlowData(prev, remotePayload))
StoreAfter(payload) == IF Usable(payload) THEN mergeGlowData(data, payload) ELSE data

\* line 439: lastSyncRef.current = Date.now()
StampAfter(payload) == IF Usable(payload) THEN now ELSE lastSyncRef

\* variant of lines 436-446 without the catch block: NoRejection depends on it
PromiseUncaught(payload) == IF IsThrow(payload) THEN "rejected" ELSE "resolved"

\* lines 441-442 and 447: the catch block takes whatever the try block threw
\* and the body returns, so the promise of the call resolves
PromiseAfter(payload) == "resolved"

\* variant of lines 443-446 that leaves the guard set: NoLockout depends on
\* the release
LockKept(payload) == TRUE

\* lines 443-446: the finally block, after a round that ended with `payload`
LockAfter(payload) == FALSE
SyncingAfter(payload) == FALSE

\* variant of lines 443-446 that runs a queued request when the round ends:
\* ForcedDiscarded depends on the round leaving nothing behind
Restarted(seq, i) == [seq EXCEPT ![i] = ApiRound(now)]

RemoveAt(seq, i) == SubSeq(seq, 1, i - 1) \o SubSeq(seq, i + 1, Len(seq))

\* round i leaves the try block with `payload`: a patch, null, or Throw when
\* an await rejected.  When Promise.all rejects, the sibling requests stay in
\* flight until they are answered or aborted; nothing reads their results.
Finish(i, outcome, payload) ==
  /\ data' = StoreAfter(payload)
  /\ lastSyncRef' = StampAfter(payload)
  /\ syncLock' = LockAfter(payload)
  /\ isSyncing' = SyncingAfter(payload)
  /\ rounds' = RemoveAt(rounds, i)
  /\ ev' = [Event("none", FALSE, outcome,
                  IF IsThrow(payload) THEN "error"
                  ELSE IF Usable(payload) THEN "merged" ELSE "nodata",
                  IF Usable(payload) THEN payload ELSE Null)
            EXCEPT !.promise = PromiseAfter(payload)]

\* round i goes on to the next source of the ?? chain of line 436
NextSource(i, outcome, stage) ==
  /\ rounds' = [rounds EXCEPT ![i] = stage]
  /\ ev' = Event("none", FALSE, outcome, "next", Null)
  /\ UNCHANGED <<data, lastSyncRef, syncLock, isSyncing>>

\* the stage after fetchApiBundle gave null
AfterApi == IF RemoteConfigured THEN [pc |-> "remote", start |-> now]
            ELSE LivewireRound(now)

\* one of the three API requests of round i is answered
ApiRespond(i, url, outcome, body) ==
  LET r == rounds[i]
      result == FetchJsonResult(outcome, body)
      r2 == [r EXCEPT ![url] = result]
      left == {u \in ApiUrls : r2[u] = Pending}
  IN /\ r.pc = "api"
     /\ r[url] = Pending
     /\ outcome = "timeout" => now >= r.start + REQUEST_TIMEOUT_MS
     /\ IF IsThrow(result)
        THEN \* Promise.all rejects with the first rejection
             Finish(i, outcome, Throw)
        ELSE IF left # {}
        THEN /\ rounds' = [rounds EXCEPT ![i] = r2]
             /\ ev' = Event("none", FALSE, outcome, "pending", Null)
             /\ UNCHANGED <<data, lastSyncRef, syncLock, isSyncing>>
        ELSE \E patch \in {ApiPatch(r2.home, r2.schedule, r2.shows)} :
               IF IsThrow(patch) \/ ~Nullish(patch)
               THEN Finish(i, outcome, patch)
               ELSE NextSource(i, outcome, AfterApi)
     /\ UNCHANGED <<appState, mounted, now, timerDue>>

\* the generic JSON endpoint or the home page answers round i
SourceRespond(i, outcome, body) ==
  LET r == rounds[i]
  IN /\ r.pc \in {"remote", "livewire"}
     /\ outcome = "timeout" => now >= r.start + REQUEST_TIMEOUT_MS
     /\ r.pc = "livewire" => outcome # "badjson"
     /\ \E payload \in {IF r.pc = "remote" THEN RemoteJsonResult(outcome, body)
                         ELSE LivewireResult(outcome, body)} :
          IF r.pc = "remote" /\ ~IsThrow(payload) /\ Nullish(payload)
          THEN NextSource(i, outcome, LivewireRound(now))
          ELSE Finish(i, outcome, payload)
     /\ UNCHANGED <<appState, mounted, now, timerDue>>

\* the deadlines of the timers that are running
Deadlines ==
  {timerDue}
    \cup {rounds[i].start + REQUEST_TIMEOUT_MS : i \in DOMAIN rounds}

\* the earliest deadline
NextDeadline == CHOOSE d \in Deadlines : \A e \in Deadlines : d <= e

\* time passes, up to the next deadline: the handlers run at the instants at
\* which some timer is due, and a timer that is due fires before more time
\* passes
Tick ==
  /\ mounted
  /\ \A d \in Deadlines : now < d
  /\ NextDeadline <= StartTime + Horizon
  /\ now' = NextDeadline
  /\ ev' = NoEvent
  /\ UNCHANGED <<data, isSyncing, lastSyncRef, syncLock, appState, mounted,
                 timerDue, rounds>>

RemoteBodies == {Obj([home |-> Obj([hero |-> Obj([hero_title |-> Str("Remote")])])])}
SourceBodies(r) == IF r.pc = "remote" THEN RemoteBodies ELSE HomePages

Next ==
  \/ Mount
  \/ \E state \in AppStates : AppStateChange(state)
  \/ TimerFire
  \/ Refresh
  \/ \E i \in DOMAIN rounds : \E url \in ApiUrls : \E outcome \in Outcomes :
       \E body \in ApiBodies(url) : ApiRespond(i, url, outcome, body)
  \/ \E i \in DOMAIN rounds : \E outcome \in Outcomes :
       \E body \in SourceBodies(rounds[i]) : SourceRespond(i, outcome, body)
  \/ Tick

Spec == Init /\ [][Next]_vars

\* a request in flight is answered with one of `outcomes`
AnsweredWith(outcomes) ==
  \/ \E i \in DOMAIN rounds : \E url \in ApiUrls : \E outcome \in outcomes :
       \E body \in ApiBodies(url) : ApiRespond(i, url, outcome, body)
  \/ \E i \in DOMAIN rounds : \E outcome \in outcomes :
       \E body \in SourceBodies(rounds[i]) : SourceRespond(i, outcome, body)

\* a request in flight fails or is aborted by the timer of withTimeout
\* (lines 220-228), or it responds
RequestAnswered ==
  \/ AnsweredWith({"badjson", "neterr", "timeout"})
  \/ AnsweredWith({"ok", "status"})

\* the hook in the foreground, with its timer and refresh(), under the
\* assumption that no request stays in flight for ever
LiveInit == Init /\ appState = "active"
LiveNext ==
  \/ Mount
  \/ TimerFire
  \/ Refresh
  \/ RequestAnswered
  \/ Tick
LiveSpec == LiveInit /\ [][LiveNext]_vars /\ WF_vars(RequestAnswered)

(***************************************************************************)
(* Whole rounds.  A round of sync runs alone (the guard of line 428), so   *)
(* its effect on the store is that of one step: the call, the answers of   *)
(* its requests and lines 437-446.  RoundSpec takes rounds as steps, each  *)
(* request answered with a body or with a status outside 2xx, and lets the *)
(* server answer with every body below.                                    *)
(***************************************************************************)
RoundHomeBodies == {HomeFull, HomePartial}
RoundShowsBodies == {ShowsFull, ShowsNone}

\* fetchJson for a request that reached the server: body, or Null for !response.ok
Answers(bodies) == {FetchJsonResult("ok", b) : b \in bodies} \cup {FetchJsonResult("status", Null)}

\* lines 433-446 run to the end with the payload of line 436
RoundEnd(payload) ==
  /\ ~LockHeld
  /\ data' = StoreAfter(payload)
  /\ lastSyncRef' = StampAfter(payload)
  /\ syncLock' = LockAfter(payload)
  /\ isSyncing' = SyncingAfter(payload)
  /\ ev' = [Event("started", TRUE, "ok",
                  IF IsThrow(payload) THEN "error"
                  ELSE IF Usable(payload) THEN "merged" ELSE "nodata",
                  IF Usable(payload) THEN payload ELSE Null)
            EXCEPT !.promise = PromiseAfter(payload)]
  /\ UNCHANGED <<appState, mounted, timerDue, rounds>>

\* a forced round that fetchApiBundle settles
ApiSync(homePayload, schedulePayload, showsPayload) ==
  /\ mounted
  /\ \E patch \in {ApiPatch(homePayload, schedulePayload, showsPayload)} :
       /\ IsThrow(patch) \/ ~Nullish(patch)
       /\ RoundEnd(patch)
  /\ UNCHANGED now

\* a forced round in which fetchApiBundle gave null and the home page answers
LivewireSync(homePayload, schedulePayload, showsPayload, html) ==
  /\ mounted
  /\ ~RemoteConfigured
  /\ \E patch \in {ApiPatch(homePayload, schedulePayload, showsPayload)} :
       ~IsThrow(patch) /\ Nullish(patch)
  /\ \E payload \in {LivewireResult("ok", html)} : RoundEnd(payload)
  /\ UNCHANGED now

\* time passes between rounds
Wait ==
  /\ mounted
  /\ now + ACTIVE_POLL_INTERVAL_MS <= StartTime + Horizon
  /\ now' = now + ACTIVE_POLL_INTERVAL_MS
  /\ ev' = NoEvent
  /\ UNCHANGED <<data, isSyncing, lastSyncRef, syncLock, appState, mounted,
                 timerDue, rounds>>

RoundInit ==
  /\ data = GLOW_DATA
  /\ isSyncing = FALSE
  /\ lastSyncRef = 0
  /\ syncLock = FALSE
  /\ appState = "active"
  /\ mounted = TRUE
  /\ now = StartTime
  /\ timerDue = StartTime + ACTIVE_POLL_INTERVAL_MS
  /\ rounds = <<>>
  /\ ev = NoEvent

RoundNext ==
  \/ \E h \in Answers(RoundHomeBodies) : \E c \in Answers(ScheduleBodies) :
       \E w \in Answers(RoundShowsBodies) : ApiSync(h, c, w)
  \/ \E h \in Answers(RoundHomeBodies) : \E c \in Answers(ScheduleBodies) :
       \E w \in Answers(RoundShowsBodies) : \E html \in RoundHomePages :
         LivewireSync(h, c, w, html)
  \/ Wait

RoundSpec == RoundInit /\ [][RoundNext]_vars

(***************************************************************************)
(* Properties.                                                             *)
(***************************************************************************)
\* the round a step resumes, and the stage it is in
Stage == IF rounds = <<>> THEN "idle" ELSE rounds[1].pc
FailedOutcomes == {"badjson", "neterr", "timeout"}

C2_TimeoutFallsThrough ==
  [][(Stage = "api" /\ ev'.outcome \in {"timeout", "neterr"})
       => ev'.round \in {"pending", "next", "merged"}]_vars

\* C3: merging never turns a non-empty list of the snapshot into an empty
\* one, for every list field: the home lists with upcomingEvents, and shows,
\* showCategories, newsPosts, blogPosts, podcasts
NonEmptyList(x) == IsArray(x) /\ Len(x.v) > 0
C3_ListsNeverEmptied ==
  [][/\ \A k \in HomeLists \cup {"upcomingEvents"} :
          NonEmptyList(GetP(GetP(data, "home"), k))
            => NonEmptyList(GetP(GetP(data', "home"), k))
     /\ \A k \in TopLists \cup {"shows", "showCategories"} :
          NonEmptyList(GetP(data, k)) => NonEmptyList(GetP(data', k))]_vars

\* C4: hero and currentShow are merged key by key, non-empty wins: after a
\* merge each key holds the patch's value if that is non-empty and the old
\* value otherwise
NonEmptyValue(x) == ~Nullish(x) /\ x # Str("")
C4_NestedNonEmptyWins ==
  [][ev'.round = "merged" =>
       \A rec \in {"hero", "currentShow"} :
         LET old == GetP(GetP(data, "home"), rec)
             new == GetP(GetP(data', "home"), rec)
             patch == OptGet(OptGet(ev'.patch, "home"), rec)
         IN \A k \in KeysOf(old) \cup KeysOf(patch) :
              GetP(new, k) = IF NonEmptyValue(OptGet(patch, k))
                             THEN OptGet(patch, k) ELSE GetP(old, k)]_vars

\* C5: the three API requests are independently optional: when one fails
\* after another has returned a usable payload, the round does not end in
\* the catch block (it awaits the rest, or merges what the others gave)
C5_RequestsIndependent ==
  [][(/\ Stage = "api"
      /\ \E u \in ApiUrls : rounds[1][u] # Pending /\ Usable(rounds[1][u])
      /\ ev'.outcome \in FailedOutcomes)
       => ev'.round \in {"pending", "merged"}]_vars

\* C6: the guard and isSyncing are both set exactly while a round is running
C6_GuardTracksRound ==
  /\ rounds # <<>> => syncLock /\ isSyncing
  /\ rounds = <<>> => ~syncLock /\ ~isSyncing

\* a round has just left through the catch block, and both are clear
C6_Witness == ev.round = "error" /\ rounds = <<>> /\ ~syncLock /\ ~isSyncing

\* C7: a round that ends without data (every source gave none, or an await
\* rejected) leaves the snapshot and the timestamp as they were, isSyncing false
C7_FailureLeavesStore ==
  [][ev'.round \in {"nodata", "error"} =>
       data' = data /\ lastSyncRef' = lastSyncRef /\ ~isSyncing']_vars

\* after an earlier success, a round in which every source gave no data
C7_Witness ==
  ev.round = "nodata" /\ lastSyncRef > 0 /\ data # GLOW_DATA /\ ~isSyncing

\* C8: a non-forced call starts a round only when at least 20 s (active) or
\* 120 s (any other phase) have passed since the last success; only a
\* non-forced call is ever turned away by the interval
C8_IntervalGating ==
  /\ (ev.call = "started" /\ ~ev.force) =>
        now - lastSyncRef >= (IF appState = "active" THEN 20000 ELSE 120000)
  /\ ev.call = "throttled" => ~ev.force

\* the timer started a round 20 s after a success
C8_Witness ==
  ev.call = "started" /\ ~ev.force /\ lastSyncRef > 0 /\ now - lastSyncRef = 20000

\* C9: a round that ends with usable data stores merge(previous snapshot,
\* patch) and stamps the time of completion; the timestamp changes in no
\* other step
C9_SuccessMergesAndStamps ==
  [][/\ ev'.round = "merged" =>
          data' = mergeGlowData(data, ev'.patch) /\ lastSyncRef' = now'
     /\ lastSyncRef' # lastSyncRef => ev'.round = "merged"]_vars

\* a round has just merged a patch that changed the snapshot
C9_Witness ==
  ev.round = "merged" /\ lastSyncRef = now /\ data # GLOW_DATA /\ rounds = <<>>

\* the patches each source can answer with
ApiPatches ==
  {ApiPatch(h, c, w) : h \in Answers(HomeBodies), c \in Answers(ScheduleBodies),
                       w \in Answers(ShowsBodies)}
LivewirePatches == {LivewirePatch(html) : html \in HomePages}

\* C10: the sources are tried in order and the chain stops at the first with
\* data: the home page is requested only when the API bundle has answered
\* with no data in the same round, the unconfigured remote JSON source is
\* never requested, and the merged patch is the patch of the one source
\* whose answer ended the round
C10_SourceOrder ==
  [][/\ \A i \in DOMAIN rounds' : rounds'[i].pc # "remote"
     /\ (rounds' # <<>> /\ rounds'[1].pc = "livewire" /\ Stage # "livewire")
          => /\ Stage = "api"
             /\ \A u \in ApiUrls : rounds[1][u] = Pending \/ ~IsThrow(rounds[1][u])
             /\ ev'.round = "next" /\ ev'.outcome \in {"ok", "status"}
     /\ (ev'.round = "merged" /\ Stage = "api") => ev'.patch \in ApiPatches
     /\ (ev'.round = "merged" /\ Stage = "livewire") => ev'.patch \in LivewirePatches
     /\ ev'.round = "merged" => rounds' = <<>>]_vars

\* the API bundle gave no data and the round now awaits the home page
C10_Witness == ev.round = "next" /\ Stage = "livewire" /\ syncLock

\* C11: no failure of a round leaves sync as an exception: the promise of a
\* call of sync (refresh() returns it) is never rejected, and is resolved
\* once the round has ended, however it ended
C11_NoRejection ==
  /\ ev.promise # "rejected"
  /\ ev.round \in {"merged", "nodata", "error"} => ev.promise = "resolved"

\* every request was answered 200, a normalizer threw on the payload, and the
\* promise resolved
C11_Witness == ev.round = "error" /\ ev.outcome = "ok" /\ ev.promise = "resolved"

\* C12: an API answer with a success status and an undecodable body counts
\* as no data from that source: the round goes on (to the other requests,
\* then to the scraped source) and does not end there
C12_DecodeErrorFallsThrough ==
  [][(Stage = "api" /\ ev'.outcome = "badjson")
       => ev'.round \in {"pending", "next", "merged"}]_vars

\* C13: merge identity: merge(S, {}) = S for every snapshot S the store holds
C13_MergeIdentity == mergeGlowData(data, EmptyObj) = data

\* a snapshot that differs from the seed and holds an empty list
C13_Witness ==
  /\ data # GLOW_DATA
  /\ ~NonEmptyList(GetP(data, "shows"))
  /\ mergeGlowData(data, EmptyObj) = data

\* C14: merge idempotence: merge(merge(S, P), P) = merge(S, P); the store
\* after a round that merged P is merge(S, P)
C14_MergeIdempotent == ev.round = "merged" => mergeGlowData(data, ev.patch) = data

\* a round merged a patch with a non-empty list into a store that differed
\* from the seed before and after
C14_Witness ==
  /\ ev.round = "merged"
  /\ NonEmptyList(OptGet(OptGet(ev.patch, "home"), "latestNews"))
  /\ data # mergeGlowData(GLOW_DATA, ev.patch)

\* C15: a key of home.hero or home.currentShow that the patch's record does
\* not hold keeps its value through the merge, also when the patch has no
\* such record
NestedOf(snapshot, rec) == OptGet(OptGet(snapshot, "home"), rec)
C15_NestedKeysKept ==
  [][ev'.round = "merged" =>
       \A rec \in {"hero", "currentShow"} :
         \A k \in KeysOf(NestedOf(data, rec)) \ KeysOf(NestedOf(ev'.patch, rec)) :
           GetP(NestedOf(data', rec), k) = GetP(NestedOf(data, rec), k)]_vars

\* a patch whose hero holds hero_title alone was merged, and hero_badge is
\* still the seed's
C15_Witness ==
  /\ ev.round = "merged"
  /\ KeysOf(NestedOf(ev.patch, "hero")) = {"hero_title"}
  /\ GetP(NestedOf(data, "hero"), "hero_badge") = Str("99.1")
  /\ GetP(NestedOf(data, "hero"), "hero_title") = Str("Live")

C17_SnapshotTotal ==
  /\ \A k \in KeysOf(GLOW_DATA) : HasKey(data, k) /\ GetP(data, k) # Undef
  /\ \A k \in KeysOf(GetP(GLOW_DATA, "home")) :
       HasKey(GetP(data, "home"), k) /\ GetP(GetP(data, "home"), k) # Undef

\* a patch without a home record was merged
C17_Witness ==
  ev.round = "merged" /\ ~HasKey(ev.patch, "home") /\ data # GLOW_DATA

\* C18: the sources of sync requests: the effect issues one forced request at
\* startup; the timer issues a non-forced request when it is due, every
\* 20 s and whatever the phase, and nothing else issues a non-forced one; a
\* lifecycle transition issues a request, a forced one, exactly when it
\* goes from inactive or background to active
C18_RequestSources ==
  [][/\ (~mounted /\ mounted') => (ev'.call # "none" /\ ev'.force)
     /\ (mounted /\ timerDue' # timerDue)
          => /\ now = timerDue
             /\ timerDue' = timerDue + 20000
             /\ ev'.call # "none" /\ ~ev'.force
     /\ (ev'.call # "none" /\ ~ev'.force) => (mounted /\ timerDue' # timerDue)
     /\ appState' # appState
          => /\ ev'.call # "none"
                  <=> (appState \in {"inactive", "background"} /\ appState' = "active")
             /\ ev'.call # "none" => ev'.force]_vars

\* the timer issued a request while the app was in the background
C18_Witness ==
  ev.call # "none" /\ ~ev.force /\ appState = "background" /\ now = StartTime + 20000

\* the API payloads of the running round, an unanswered request counted as null
AnsweredOrNull(x) == IF x = Pending THEN Null ELSE x
PatchOfAnswered ==
  ApiPatch(AnsweredOrNull(rounds[1].home), AnsweredOrNull(rounds[1].schedule),
           AnsweredOrNull(rounds[1].shows))

\* C19: a status outside 2xx is no data from that request and is not thrown:
\* on an API request the round awaits the rest, and when it was the last
\* answer the bundle is what the other two give (merged when they give
\* data); on the home page the round ends with no update
C19_StatusIsNoData ==
  [][ev'.outcome = "status" =>
       /\ Stage = "livewire" => ev'.round = "nodata"
       /\ Stage = "api" =>
            IF Cardinality({u \in ApiUrls : rounds[1][u] = Pending}) > 1
            THEN ev'.round = "pending"
            ELSE \E p \in {PatchOfAnswered} :
                   CASE IsThrow(p) -> ev'.round = "error"
                     [] Usable(p) -> ev'.round = "merged" /\ ev'.patch = p
                     [] OTHER -> ev'.round = "next"]_vars

\* the last API request was answered with an error status and the round
\* merged what the others gave
C19_Witness == ev.outcome = "status" /\ ev.round = "merged" /\ data # GLOW_DATA

\* the cards normalized from `items` carry, for every item whose category is
\* a record {name}, that name as their category
FlattenedIn(cards, items) ==
  (IsArray(items) /\ Len(items.v) > 0) =>
    /\ IsArray(cards) /\ Len(cards.v) = Len(items.v)
    /\ \A i \in DOMAIN items.v :
         GetP(items.v[i], "category").t = "obj" =>
           GetP(cards.v[i], "category") = GetP(GetP(items.v[i], "category"), "name")

\* C20: in the API path a category {name} is flattened to its name in every
\* card that carries one: news cards, blog cards and featured shows of the
\* home payload, and the shows of the listing
C20_CategoryFlattened ==
  [][\A h \in RoundHomeBodies : \A c \in Answers(ScheduleBodies) :
       \A w \in RoundShowsBodies :
         ApiSync(h, c, w) =>
           /\ \A k \in {"latestNews", "latestBlogPosts", "featuredShows"} :
                FlattenedIn(GetP(GetP(data', "home"), k), GetP(h, k))
           /\ FlattenedIn(GetP(data', "shows"), GetP(w, "data"))]_vars

\* C21: the normalizer never raises: a round whose last answer arrived (with
\* a body or an error status) never leaves through the catch block
C21_NormalizerNeverRaises == ev.outcome \in {"ok", "status"} => ev.round # "error"

\* rawData of buildPatchFromSnapshot for a page whose snapshot was read
ScrapedTree(html) ==
  LET snapshot == extractWireSnapshot(html)
  IN IF ~Truthy(snapshot) \/ ~TypeofObject(snapshot) THEN Undef
     ELSE Coalesce(GetP(snapshot, "data"), snapshot)

\* some record of the tree holds the reserved key s
RECURSIVE HasReserved(_)
HasReserved(tree) ==
  CASE tree.t = "arr" -> \E i \in DOMAIN tree.v : HasReserved(tree.v[i])
    [] tree.t = "obj" ->
         "s" \in DOMAIN tree.v \/ \E k \in DOMAIN tree.v : HasReserved(tree.v[k])
    [] OTHER -> FALSE

\* the scalar values held anywhere in a tree
RECURSIVE Leaves(_)
Leaves(tree) ==
  CASE tree.t = "arr" -> UNION {Leaves(tree.v[i]) : i \in DOMAIN tree.v}
    [] tree.t = "obj" -> UNION {Leaves(tree.v[k]) : k \in DOMAIN tree.v}
    [] OTHER -> {tree}

\* the scalar values of a tree that lie in no record holding the key s
RECURSIVE KeptLeaves(_)
KeptLeaves(tree) ==
  CASE tree.t = "arr" -> UNION {KeptLeaves(tree.v[i]) : i \in DOMAIN tree.v}
    [] tree.t = "obj" ->
         IF "s" \in DOMAIN tree.v THEN {}
         ELSE UNION {KeptLeaves(tree.v[k]) : k \in DOMAIN tree.v}
    [] OTHER -> {tree}

\* C22: in every round that reads the home page, the pruned tree holds no
\* record with the key s, it keeps exactly the values outside such records
\* (null list entries aside), nothing held by such a record reaches the patch
\* or the store, and a tree whose root is such a record gives no data
C22_WrappersPruned ==
  [][\A html \in RoundHomePages :
       (ScrapedTree(html) # Undef /\ LivewireSync(Null, Null, Null, html)) =>
         LET tree == ScrapedTree(html)
             cleaned == stripLivewire(tree)
             dropped == Leaves(tree) \ KeptLeaves(tree)
         IN IF tree.t = "obj" /\ "s" \in DOMAIN tree.v
            THEN cleaned = Undef /\ LivewirePatch(html) = Null
                 /\ ev'.round = "nodata" /\ data' = data
            ELSE /\ ~HasReserved(cleaned)
                 /\ Leaves(cleaned) \subseteq KeptLeaves(tree)
                 /\ KeptLeaves(tree) \ {Null} \subseteq Leaves(cleaned)
                 /\ Leaves(LivewirePatch(html)) \cap dropped = {}
                 /\ Leaves(data') \cap dropped = {}
                 /\ ev'.round = "merged"]_vars
\* the home page with metadata records in a list and inside a record was merged
C22_Witness ==
  /\ ev.round = "merged"
  /\ GetP(GetP(data, "home"), "stats") =
       Arr(<<Obj([label |-> Str("Shows"), number |-> Str("12")])>>)
  /\ GetP(GetP(GetP(data, "home"), "currentShow"), "title") = Str("Late Show")
  /\ ~HasKey(GetP(GetP(data, "home"), "currentShow"), "memo")

\* a tree and everything nested in it
RECURSIVE SubTrees(_)
SubTrees(tree) ==
  CASE tree.t = "arr" -> {tree} \cup UNION {SubTrees(tree.v[i]) : i \in DOMAIN tree.v}
    [] tree.t = "obj" -> {tree} \cup UNION {SubTrees(tree.v[k]) : k \in DOMAIN tree.v}
    [] OTHER -> {tree}

IsSingleton(entry) == IsArray(entry) /\ Len(entry.v) = 1

\* C23: for every value nested in the cleaned tree of a page read by a round,
\* unwrapSingleton gives a value that is no list of length 1, found by opening
\* singleton lists from the top, and gives back untouched every value that is
\* no list of length 1; [[{a:1}]] gives {a:1}, [{a:1},{a:2}] stays
C23_SingletonUnwrapped ==
  [][\A html \in RoundHomePages :
       (ScrapedTree(html) # Undef /\ LivewireSync(Null, Null, Null, html)) =>
         LET entries == SubTrees(stripLivewire(ScrapedTree(html)))
             one == Obj([a |-> Num(1)])
             two == Obj([a |-> Num(2)])
         IN /\ \A entry \in entries :
                 /\ ~IsSingleton(unwrapSingleton(entry))
                 /\ ~IsSingleton(entry) => unwrapSingleton(entry) = entry
                 /\ IsSingleton(entry) =>
                      unwrapSingleton(entry) = unwrapSingleton(entry.v[1])
            /\ Arr(<<Arr(<<one>>)>>) \in entries =>
                 /\ unwrapSingleton(Arr(<<Arr(<<one>>)>>)) = one
                 /\ unwrapSingleton(Arr(<<one, two>>)) = Arr(<<one, two>>)
                 /\ GetP(GetP(data', "home"), "trendingNews") = Arr(<<one>>)
                 /\ GetP(GetP(data', "home"), "featuredNews") = Arr(<<one, two>>)
                 /\ GetP(GetP(data', "home"), "mostViewedNews") = Arr(<<one, two>>)]_vars
\* the page with lists nested in singleton lists was merged
C23_Witness ==
  /\ ev.round = "merged"
  /\ GetP(GetP(data, "home"), "trendingNews") = Arr(<<Obj([a |-> Num(1)])>>)
  /\ GetP(GetP(data, "home"), "mostViewedNews") =
       Arr(<<Obj([a |-> Num(1)]), Obj([a |-> Num(2)])>>)

\* the link of an episode card against its source record: a link given is
\* kept; without one, both slugs give the podcast URL, show_slug then slug;
\* otherwise the link is the empty string
LinkRule(record, card) ==
  LET link == GetP(record, "link")
      slug == GetP(record, "slug")
      show == GetP(record, "show_slug")
      both == slug.t = "str" /\ slug.v # "" /\ show.t = "str" /\ show.v # ""
  IN /\ ~Nullish(GetP(card, "link"))
     /\ (link.t = "str" /\ link.v # "") => GetP(card, "link") = link
     /\ (Nullish(link) /\ both) =>
          GetP(card, "link") = Str(SITE \o "/podcasts/" \o show.v \o "/" \o slug.v)
     /\ (Nullish(link) /\ ~both) => GetP(card, "link") = Str("")

\* the episode records a scraped page lists
ScrapedEpisodes(html) ==
  normalizeList(GetP(stripLivewire(ScrapedTree(html)), "latestPodcastEpisodes"))

HomeListOf(patch, k) == GetP(Coalesce(GetP(patch, "home"), EmptyObj), k)

\* C25: in every round that merges a patch, each of the nine home lists and
\* each of newsPosts, blogPosts and podcasts is the patch's list when the patch
\* has one that is not empty, and the old list otherwise
C25_ListRule ==
  [][ev'.round = "merged" =>
       /\ \A k \in HomeLists :
            GetP(GetP(data', "home"), k) =
              IF NonEmptyList(HomeListOf(ev'.patch, k)) THEN HomeListOf(ev'.patch, k)
              ELSE GetP(GetP(data, "home"), k)
       /\ \A k \in TopLists :
            GetP(data', k) =
              IF NonEmptyList(GetP(ev'.patch, k)) THEN GetP(ev'.patch, k)
              ELSE GetP(data, k)]_vars
\* a patch was merged that carried news but an empty stats list and no
\* blog posts: the store took the news and kept its stats and blog posts
C25_Witness ==
  /\ ev.round = "merged"
  /\ NonEmptyList(HomeListOf(ev.patch, "latestNews"))
  /\ GetP(GetP(data, "home"), "latestNews") = HomeListOf(ev.patch, "latestNews")
  /\ HomeListOf(ev.patch, "stats") = EmptyArr
  /\ GetP(ev.patch, "blogPosts") = EmptyArr
  /\ GetP(GetP(data, "home"), "stats") = GetP(GetP(GLOW_DATA, "home"), "stats")
  /\ GetP(data, "blogPosts") = GetP(GLOW_DATA, "blogPosts")

\* C26: when the home endpoint has answered with a JSON object, the API stage
\* of the round ends in a success: the patch is merged, the time of the last
\* success is set, and the round does not go on to the home page
C26_HomeObjectUsable ==
  [][(/\ Stage = "api"
      /\ Truthy(rounds[1].home) /\ TypeofObject(rounds[1].home)
      /\ (rounds' = <<>> \/ rounds'[1].pc # "api"))
       => ev'.round = "merged" /\ lastSyncRef' = now /\ rounds' = <<>>]_vars

RoundEnded == {"merged", "nodata", "error"}

\* C27: a request that arrives while a round is running is discarded, forced
\* or not: it changes nothing of the hook's state and the running round goes
\* on as it was; the step that ends a round starts no other one and leaves the
\* guard free; a round starts only in the step of a request that found the
\* guard free
C27_ForcedDiscarded ==
  [][/\ ev'.call = "locked" =>
          /\ syncLock /\ rounds' = rounds /\ rounds # <<>>
          /\ UNCHANGED <<data, isSyncing, lastSyncRef, syncLock, now>>
     /\ ev'.round \in RoundEnded =>
          rounds' = <<>> /\ ~syncLock' /\ ~isSyncing' /\ ev'.call = "none"
     /\ Len(rounds') > Len(rounds) => ev'.call = "started" /\ ~syncLock]_vars
\* a foreground transition or refresh() arrived while the round was awaiting
\* the home page, and returned at line 428
C27_Witness ==
  /\ ev.call = "locked" /\ ev.force
  /\ Stage = "livewire" /\ syncLock /\ isSyncing

\* C28: the snapshot changes only in the step that ends a running round with
\* a merge, with the guard held, so at most once per round; timer ticks,
\* lifecycle transitions, calls of sync (started or turned away by the guard
\* or by the interval), answers that leave the round running and rounds that
\* end in no data or in an error leave it as it was
C28_SnapshotChangesInRound ==
  [][/\ data' # data =>
          /\ syncLock /\ isSyncing /\ Len(rounds) = 1 /\ rounds' = <<>>
          /\ ev'.round = "merged" /\ ev'.call = "none"
     /\ ev'.call # "none" => data' = data
     /\ ev'.round \in {"pending", "next", "nodata", "error"} => data' = data
     /\ (now' # now \/ appState' # appState \/ timerDue' # timerDue) => data' = data]_vars
\* a round ended in the catch block after an earlier round had merged: the
\* merged snapshot is still in the store
C28_Witness ==
  /\ ev.round = "error" /\ rounds = <<>>
  /\ data # GLOW_DATA /\ lastSyncRef > 0

\* the step is a tick of the 20 s timer
TimerStep == mounted /\ timerDue' = timerDue + ACTIVE_POLL_INTERVAL_MS

\* C29: in the background, a timer tick that finds the guard free starts a
\* round whenever the last success is at least 120 s old (or there was none),
\* however recent the last failed round; it is turned away only while the
\* last success is less than 120 s old
C29_BackgroundRetries ==
  [][(TimerStep /\ appState = "background" /\ ~syncLock) =>
       IF now - lastSyncRef >= BACKGROUND_POLL_INTERVAL_MS
       THEN /\ ev'.call = "started" /\ ~ev'.force
            /\ syncLock' /\ rounds' = <<ApiRound(now)>>
       ELSE ev'.call = "throttled" /\ rounds' = rounds /\ lastSyncRef > 0]_vars
\* a timer tick in the background started a round 20 s after the startup
\* round, which had failed: no sync has succeeded so far
C29_Witness ==
  /\ ev.call = "started" /\ ~ev.force
  /\ appState = "background" /\ lastSyncRef = 0 /\ data = GLOW_DATA
  /\ now = StartTime + ACTIVE_POLL_INTERVAL_MS

\* C30: when no request stays in flight for ever, a guard that is held is
\* released in the end, and a forced call that finds the guard free starts a
\* round
C30_NoLockout ==
  /\ syncLock ~> (~syncLock /\ rounds = <<>>)
  /\ [][(ev'.call # "none" /\ ev'.force /\ ~syncLock) =>
          /\ ev'.call = "started"
          /\ syncLock' /\ rounds' = <<ApiRound(now)>>]_vars
\* a round whose last request was aborted by its timeout has ended, and the
\* guard is free
C30_Witness ==
  /\ ev.outcome = "timeout" /\ ev.round \in RoundEnded
  /\ ~syncLock /\ ~isSyncing /\ rounds = <<>>

====
